---- MODULE Spec2Model ----
(***************************************************************************)
(* Positional tree diff and patch projection of src/src/lib.rs.            *)
(*                                                                         *)
(* A run builds two trees (node1, node2), calls diff(node1, node2) and     *)
(* then patch(node1, result).  diff and patch are pure recursive functions *)
(* threading one mutable counter; they are modelled as recursive operators *)
(* over a threaded state record.  Besides what the code computes (the      *)
(* HashMap and the printed lines) the records carry history fields         *)
(* (visits, writes, origin) that log what the code did, in order.          *)
(***************************************************************************)
EXTENDS Naturals, Sequences, FiniteSets, TLC

VARIABLES pc, node1, node2, result, stdout, diffVisits, diffWrites, applyVisits, origin

vars == <<pc, node1, node2, result, stdout, diffVisits, diffWrites, applyVisits, origin>>

\* ---------------------------------------------------------------- bounds
\* Largest number of nodes of the generated first and second tree.
MaxNodesA == 4
MaxNodesB == 3

\* The values the generated trees are labelled with.
Values == {"x", "y"}

\* ------------------------------------------------------------ tree model
\* Option<String>
None == <<>>
Some(s) == <<s>>

\* Node::new
Node(value, k, children) == [key |-> k, value |-> value, children |-> children]

\* fn key(s)
key(s) == Some(s)

\* enum Patch
Update(node) == [tag |-> "Update", node |-> node]
Insert(nodes) == [tag |-> "Insert", nodes |-> nodes]
Remove == [tag |-> "Remove"]

\* HashMap::new, HashMap::insert (an existing entry is overwritten), HashMap::get
EmptyMap == <<>>
insert(m, k, v) == [x \in (DOMAIN m) \cup {k} |-> IF x = k THEN v ELSE m[x]]
get(m, k) == IF k \in DOMAIN m THEN Some(m[k]) ELSE None

\* ------------------------------------------------------------------ diff
RECURSIVE walk(_, _, _, _)
RECURSIVE diff_children(_, _, _, _)
RECURSIVE diff_children_loop(_, _, _, _, _)

\* result.insert(*index, patch), logged in writes with the node of the first
\* tree (its path from the root) the patch is recorded for.
record(st, position, patch, path) ==
    [st EXCEPT !.result = insert(@, position, patch),
               !.writes = Append(@, [pos |-> position, path |-> path, patch |-> patch])]

\* faulty variant of ValueEq: the nodes are paired by their keys, not their values
ValueEq_by_key(a, b) == a.key = b.key

\* a.value == b.value
ValueEq(a, b) == a.value = b.value

\* faulty variant of walk: the children of a replaced node are still compared
walk_descends_after_update(a, b, path, st) ==
    LET seen == [st EXCEPT !.visits = Append(@, [path |-> path, index |-> st.index,
                                                 kind |-> "walk"])]
    IN  IF ValueEq(a, b)
        THEN diff_children(a.children, b.children, path, seen)
        ELSE diff_children(a.children, b.children, path,
                           record(seen, seen.index, Update(b), path))

walk(a, b, path, st) ==
    LET seen == [st EXCEPT !.visits = Append(@, [path |-> path, index |-> st.index,
                                                 kind |-> "walk"])]
    IN  IF ValueEq(a, b)
        THEN diff_children(a.children, b.children, path, seen)
        ELSE record(seen, seen.index, Update(b), path)

\* faulty variant of inserts: the loop starts one slot late, at a_len + 1
inserts_skip_first(b_children, a_len, b_len) == SubSeq(b_children, a_len + 2, b_len)

\* let mut inserts = vec![]; for i in a_len..b_len { inserts.push(b_children[i].clone()) }
inserts(b_children, a_len, b_len) == SubSeq(b_children, a_len + 1, b_len)

\* faulty variant of no_counterpart: off by one, the last paired child counts as unpaired
no_counterpart_off_by_one(i, b_len) == i + 1 >= b_len

\* if i >= b_len: the child of a at slot i has no counterpart in b
no_counterpart(i, b_len) == i >= b_len

\* faulty variant of diff_children_loop: the counter is incremented after the child is
\* visited, not before
RECURSIVE diff_children_loop_post_increment(_, _, _, _, _)
diff_children_loop_post_increment(a_children, b_children, i, path, st) ==
    IF i >= Len(a_children) THEN st
    ELSE LET child == path \o <<i + 1>>
             st2 == IF no_counterpart(i, Len(b_children))
                    THEN record([st EXCEPT !.visits = Append(@, [path |-> child,
                                               index |-> st.index, kind |-> "remove"])],
                                st.index, Remove, child)
                    ELSE walk(a_children[i + 1], b_children[i + 1], child, st)
             st3 == [st2 EXCEPT !.index = @ + 1]
         IN  diff_children_loop_post_increment(a_children, b_children, i + 1, path, st3)

\* the body of `for i in 0..a_len`, from iteration i on (i counts from 0)
diff_children_loop(a_children, b_children, i, path, st) ==
    IF i >= Len(a_children) THEN st
    ELSE LET st1 == [st EXCEPT !.index = @ + 1]
             child == path \o <<i + 1>>
             st2 == IF no_counterpart(i, Len(b_children))
                    THEN record([st1 EXCEPT !.visits = Append(@, [path |-> child,
                                                index |-> st1.index, kind |-> "remove"])],
                                st1.index, Remove, child)
                    ELSE walk(a_children[i + 1], b_children[i + 1], child, st1)
         IN  diff_children_loop(a_children, b_children, i + 1, path, st2)

\* faulty variant of diff_children: parent_index is read after the loop, when the counter
\* has moved on to the last child visited
diff_children_late_parent_index(a_children, b_children, path, st) ==
    LET a_len == Len(a_children)
        b_len == Len(b_children)
        st1 == diff_children_loop(a_children, b_children, 0, path, st)
        parent_index == st1.index
    IN  IF b_len > a_len
        THEN record(st1, parent_index, Insert(inserts(b_children, a_len, b_len)), path)
        ELSE st1

diff_children(a_children, b_children, path, st) ==
    LET parent_index == st.index
        a_len == Len(a_children)
        b_len == Len(b_children)
        st1 == diff_children_loop(a_children, b_children, 0, path, st)
    IN  IF b_len > a_len
        THEN record(st1, parent_index, Insert(inserts(b_children, a_len, b_len)), path)
        ELSE st1

diff(a, b) ==
    walk(a, b, <<>>, [result |-> EmptyMap, index |-> 0, visits |-> <<>>, writes |-> <<>>])

\* ----------------------------------------------------------------- patch
RECURSIVE indent(_)
RECURSIVE print_rec(_, _)
RECURSIVE print_rec_children(_, _, _)
RECURSIVE print_rec_all(_, _, _)
RECURSIVE apply(_, _, _, _, _)
RECURSIVE apply_children(_, _, _, _, _, _)

\* faulty variant of indent: one space per level
RECURSIVE indent_one_space(_)
indent_one_space(n) == IF n = 0 THEN "" ELSE " " \o indent_one_space(n - 1)

\* iter::repeat("  ").take(n).collect()
indent(n) == IF n = 0 THEN "" ELSE "  " \o indent(n - 1)

\* println! of one node: the line printed
print(node, depth, change) ==
    IF change THEN indent(depth) \o node.value \o "(*)"
    ELSE indent(depth) \o node.value

\* faulty variant of print_rec: only the root of the subtree is marked
RECURSIVE print_unmarked(_, _)
RECURSIVE print_unmarked_children(_, _, _)
print_unmarked(node, depth) ==
    <<print(node, depth, FALSE)>> \o print_unmarked_children(node.children, 1, depth + 1)

print_unmarked_children(children, i, depth) ==
    IF i > Len(children) THEN <<>>
    ELSE print_unmarked(children[i], depth)
             \o print_unmarked_children(children, i + 1, depth)

print_rec_marks_root_only(node, depth) ==
    <<print(node, depth, TRUE)>> \o print_unmarked_children(node.children, 1, depth + 1)

\* the lines print_rec prints
print_rec(node, depth) ==
    <<print(node, depth, TRUE)>> \o print_rec_children(node.children, 1, depth + 1)

print_rec_children(children, i, depth) ==
    IF i > Len(children) THEN <<>>
    ELSE print_rec(children[i], depth) \o print_rec_children(children, i + 1, depth)

\* println! appends lines to the output; origin logs where each line came from
emit(st, lines, from) ==
    [st EXCEPT !.out = @ \o lines,
               !.origin = @ \o [k \in 1..Len(lines) |-> from]]

\* for node in nodes { print_rec(node, depth + 1) }
print_rec_all(nodes, i, depth) ==
    IF i > Len(nodes) THEN <<>>
    ELSE print_rec(nodes[i], depth) \o print_rec_all(nodes, i + 1, depth)

\* faulty variant of apply_children: the counter is incremented after the child is
\* visited, not before
RECURSIVE apply_children_post_increment(_, _, _, _, _, _)
apply_children_post_increment(children, patches, i, path, depth, st) ==
    IF i >= Len(children) THEN st
    ELSE LET st1 == apply(children[i + 1], patches, path \o <<i + 1>>, depth, st)
         IN  apply_children_post_increment(children, patches, i + 1, path, depth,
                                           [st1 EXCEPT !.index = @ + 1])

\* for child in &node.children { *index = *index + 1; apply(child, ..., depth + 1) }
apply_children(children, patches, i, path, depth, st) ==
    IF i >= Len(children) THEN st
    ELSE LET st1 == [st EXCEPT !.index = @ + 1]
         IN  apply_children(children, patches, i + 1, path, depth,
                            apply(children[i + 1], patches, path \o <<i + 1>>, depth, st1))

\* the line of a node of the first tree, and the lines of a subtree a patch carries
own(path) == [from |-> "node", path |-> path]
carried(position) == [from |-> "patch", pos |-> position]

\* None => { print(node, depth, false); for child in &node.children { ... } }
none_arm(node, patches, path, depth, st) ==
    apply_children(node.children, patches, 0, path, depth + 1,
                   emit(st, <<print(node, depth, FALSE)>>, own(path)))

\* Patch::Update(ref node) => { print_rec(node, depth); }
update_arm(new_node, position, depth, st) ==
    emit(st, print_rec(new_node, depth), carried(position))

\* Patch::Insert(ref nodes) => { print(node, ..); for child ..; for node in nodes .. }
insert_arm(node, nodes, patches, position, path, depth, st) ==
    emit(apply_children(node.children, patches, 0, path, depth + 1,
                        emit(st, <<print(node, depth, FALSE)>>, own(path))),
         print_rec_all(nodes, 1, depth + 1), carried(position))

\* faulty variant of remove_arm: the removed node itself is still printed
remove_arm_prints(node, path, depth, st) ==
    emit(st, <<print(node, depth, FALSE)>>, own(path))

\* Patch::Remove => { }
remove_arm(node, path, depth, st) == st

apply(node, patches, path, depth, st) ==
    LET found == get(patches, st.index)
        position == st.index
        seen == [st EXCEPT !.visits = Append(@, [path |-> path, index |-> st.index,
                                                 found |-> found])]
    IN  IF found = None
        THEN none_arm(node, patches, path, depth, seen)
        ELSE LET patch == found[1]
             IN  CASE patch.tag = "Update" -> update_arm(patch.node, position, depth, seen)
                   [] patch.tag = "Insert" ->
                        insert_arm(node, patch.nodes, patches, position, path, depth, seen)
                   [] patch.tag = "Remove" -> remove_arm(node, path, depth, seen)

patch(root, patches) ==
    apply(root, patches, <<>>, 0, [index |-> 0, out |-> <<>>, origin |-> <<>>, visits |-> <<>>])

\* ------------------------------------------------------ the trees of a run
RECURSIVE TreesOfSize(_)
RECURSIVE ForestsOfSize(_)

\* every list of trees with n nodes in all
ForestsOfSize(n) ==
    IF n = 0 THEN {<<>>}
    ELSE UNION {{<<t>> \o f : t \in TreesOfSize(k), f \in ForestsOfSize(n - k)} : k \in 1..n}

\* every tree with exactly n nodes (n >= 1), built by Node::new with no key
TreesOfSize(n) == {Node(v, None, f) : v \in Values, f \in ForestsOfSize(n - 1)}

TreesUpTo(n) == UNION {TreesOfSize(k) : k \in 1..n}

\* tests::it_works
ItWorksNode1 ==
    Node("root", None, <<
        Node("child1", key("child1"), <<
            Node("child1-1", None, <<>>)>>),
        Node("child2", key("child2"), <<
            Node("child2-1", None, <<>>),
            Node("child2-2", None, <<>>)>>),
        Node("child3", key("child3"), <<>>)>>)

ItWorksNode2 ==
    Node("root", None, <<
        Node("child1", key("child1"), <<>>),
        Node("child2", key("child2"), <<
            Node("child2-2", None, <<>>),
            Node("child2-1", None, <<
                Node("child2-1-1", None, <<>>)>>)>>),
        Node("child4", key("child4"), <<>>),
        Node("child5", key("child5"), <<>>),
        Node("child6", key("child6"), <<
            Node("child6-1", None, <<>>)>>)>>)

\* ---------------------------------------------------------- state machine
Init ==
    /\ pc = "start"
    /\ \E pair \in (TreesUpTo(MaxNodesA) \X TreesUpTo(MaxNodesB))
                        \cup {<<ItWorksNode1, ItWorksNode2>>} :
           /\ node1 = pair[1]
           /\ node2 = pair[2]
    /\ result = EmptyMap
    /\ stdout = <<>>
    /\ diffVisits = <<>>
    /\ diffWrites = <<>>
    /\ applyVisits = <<>>
    /\ origin = <<>>

\* let result = diff(&node1, &node2);
Diff ==
    /\ pc = "start"
    /\ LET st == diff(node1, node2)
       IN  /\ result' = st.result
           /\ diffVisits' = st.visits
           /\ diffWrites' = st.writes
    /\ pc' = "diffed"
    /\ UNCHANGED <<node1, node2, stdout, applyVisits, origin>>

\* patch(&node1, &result);
Patch ==
    /\ pc = "diffed"
    /\ LET st == patch(node1, result)
       IN  /\ stdout' = st.out
           /\ applyVisits' = st.visits
           /\ origin' = st.origin
    /\ pc' = "patched"
    /\ UNCHANGED <<node1, node2, result, diffVisits, diffWrites>>

Next == Diff \/ Patch

Spec == Init /\ [][Next]_vars

\* ------------------------------------------- vocabulary of the properties
RECURSIVE PreOrder(_, _)
RECURSIVE PreOrderAll(_, _, _)
RECURSIVE At(_, _)
RECURSIVE InTree(_, _)
RECURSIVE StructEq(_, _)
RECURSIVE TwoSpaces(_)

\* the paths of the nodes of t in pre-order: parent before children, children
\* left to right; a path is the list of child slots (from 1) leading from the root
PreOrder(t, path) == <<path>> \o PreOrderAll(t.children, 1, path)

PreOrderAll(children, i, path) ==
    IF i > Len(children) THEN <<>>
    ELSE PreOrder(children[i], path \o <<i>>) \o PreOrderAll(children, i + 1, path)

Size(t) == Len(PreOrder(t, <<>>))

InTree(t, path) ==
    \/ path = <<>>
    \/ /\ Head(path) <= Len(t.children)
       /\ InTree(t.children[Head(path)], Tail(path))

At(t, path) == IF path = <<>> THEN t ELSE At(t.children[Head(path)], Tail(path))

\* position of a node in the pre-order traversal of t, the root being 0
Pos(t, path) ==
    LET po == PreOrder(t, <<>>) IN (CHOOSE k \in 1..Len(po) : po[k] = path) - 1

IsPrefix(p, q) == Len(p) <= Len(q) /\ SubSeq(q, 1, Len(p)) = p
IsProperPrefix(p, q) == Len(p) < Len(q) /\ SubSeq(q, 1, Len(p)) = p

\* same shape and same values (keys are not looked at)
StructEq(s, t) ==
    /\ s.value = t.value
    /\ Len(s.children) = Len(t.children)
    /\ \A i \in 1..Len(s.children) : StructEq(s.children[i], t.children[i])

\* two spaces per level
TwoSpaces(d) == IF d = 0 THEN "" ELSE TwoSpaces(d - 1) \o "  "

\* the line of the node of t at path, the root of t being at depth d0
Line(t, path, d0, marked) ==
    TwoSpaces(d0 + Len(path)) \o At(t, path).value \o (IF marked THEN "(*)" ELSE "")

\* one line per node of t, in pre-order, all marked or all unmarked
Render(t, d0, marked) ==
    LET po == PreOrder(t, <<>>) IN [k \in 1..Len(po) |-> Line(t, po[k], d0, marked)]

Tags(writes) == {writes[j].patch.tag : j \in 1..Len(writes)}

\* ------------------------------------------------------------------ C1
\* C1: patch(A, diff(A, B)) prints, the "(*)" marker ignored, exactly one line
\* per node of B, in B's pre-order, each showing the node's value indented by two
\* spaces per level of its depth in B; nodes that exist only in A print nothing.
C1_PatchPrintsNewTree ==
    pc = "patched" =>
        LET po == PreOrder(node2, <<>>)
        IN  /\ Len(stdout) = Len(po)
            /\ \A k \in 1..Len(po) :
                   stdout[k] \in {Line(node2, po[k], 0, FALSE), Line(node2, po[k], 0, TRUE)}

\* a run of generated trees where a node only in A is dropped and a node only in B added
C1_Witness ==
    /\ pc = "patched"
    /\ node1 # ItWorksNode1
    /\ Tags(diffWrites) = {"Insert", "Remove"}
    /\ Size(node1) = Size(node2)
    /\ Len(stdout) = Size(node2)

\* ------------------------------------------------------------------ C3
\* C3: diff(T, T') is empty when T' is structurally equal to T, and patch then
\* prints every node of T unmarked, values, order and depths as in a plain
\* pre-order traversal of T.
C3_Identity ==
    StructEq(node1, node2) =>
        /\ pc # "start" => result = EmptyMap /\ diffWrites = <<>>
        /\ pc = "patched" => stdout = Render(node1, 0, FALSE)

C3_Witness ==
    /\ pc = "patched"
    /\ StructEq(node1, node2)
    /\ Size(node1) >= 3
    /\ node1.children # <<>>
    /\ node1.children[1].children # <<>>
    /\ Len(stdout) = Size(node1)

\* ------------------------------------------------------------------ C5
\* a node of B is changed when it, or one of its ancestors in B, has no node of A
\* paired with it by child index or a value different from that node's
Changed(path) ==
    \E n \in 0..Len(path) :
        LET q == SubSeq(path, 1, n)
        IN  \/ ~InTree(node1, q)
            \/ At(node1, q).value # At(node2, q).value

\* C5: a printed line carries the marker "(*)" if and only if its node of B is
\* changed (it or an ancestor is replaced or inserted); descendants of a replaced
\* or inserted node are marked even when equal to their counterpart in A.
C5_MarkedIffChanged ==
    pc = "patched" =>
        LET po == PreOrder(node2, <<>>)
        IN  /\ Len(stdout) = Len(po)
            /\ \A k \in 1..Len(po) :
                   (stdout[k] = Line(node2, po[k], 0, TRUE)) <=> Changed(po[k])

\* a marked line of a node equal to its counterpart in A, beside an unmarked line
C5_Witness ==
    /\ pc = "patched"
    /\ LET po == PreOrder(node2, <<>>)
       IN  /\ \E k \in 1..Len(po) :
                  /\ InTree(node1, po[k])
                  /\ At(node1, po[k]).value = At(node2, po[k]).value
                  /\ stdout[k] = Line(node2, po[k], 0, TRUE)
           /\ \E k \in 1..Len(po) : stdout[k] = Line(node2, po[k], 0, FALSE)

\* ------------------------------------------------------------------ C2
\* C2: the traversal of A made by patch visits exactly the nodes diff visited, in
\* the same order and at the same counter values; every patch diff recorded at
\* position p for node n is looked up by patch at node n, none at another node,
\* none left unconsulted.
C2_SameTraversal ==
    pc = "patched" =>
        /\ Len(applyVisits) = Len(diffVisits)
        /\ \A k \in 1..Len(diffVisits) :
               /\ applyVisits[k].path = diffVisits[k].path
               /\ applyVisits[k].index = diffVisits[k].index
        /\ \A j \in 1..Len(diffWrites) :
               \E k \in 1..Len(applyVisits) :
                   /\ applyVisits[k].path = diffWrites[j].path
                   /\ applyVisits[k].index = diffWrites[j].pos
                   /\ applyVisits[k].found = Some(diffWrites[j].patch)
        /\ \A k \in 1..Len(applyVisits) :
               applyVisits[k].found # None =>
                   \E j \in 1..Len(diffWrites) :
                       /\ diffWrites[j].path = applyVisits[k].path
                       /\ diffWrites[j].pos = applyVisits[k].index
                       /\ Some(diffWrites[j].patch) = applyVisits[k].found

\* a removed or replaced subtree with nodes below it, and a later node, outside
\* that subtree, with a patch of its own looked up at a shifted position
C2_Witness ==
    /\ pc = "patched"
    /\ \E i, j \in 1..Len(diffWrites) :
           /\ diffWrites[i].patch.tag \in {"Update", "Remove"}
           /\ At(node1, diffWrites[i].path).children # <<>>
           /\ diffWrites[j].pos > diffWrites[i].pos
           /\ diffWrites[j].pos # Pos(node1, diffWrites[j].path)
           /\ \E k \in 1..Len(applyVisits) :
                  /\ applyVisits[k].path = diffWrites[j].path
                  /\ applyVisits[k].found = Some(diffWrites[j].patch)

\* ------------------------------------------------------------------ C4
IsItWorks == node1 = ItWorksNode1 /\ node2 = ItWorksNode2

\* C4 as stated: for the trees of it_works, diff yields a Remove for child1-1, an
\* Update replacing child2's first child, a Remove for child3 and an Insert at
\* position 0 batching child4, child5 and child6.
C4_AsStated ==
    (IsItWorks /\ pc # "start") =>
        /\ \E j \in 1..Len(diffWrites) :
               diffWrites[j].path = <<1, 1>> /\ diffWrites[j].patch = Remove
        /\ \E j \in 1..Len(diffWrites) :
               /\ diffWrites[j].path = <<2, 1>>
               /\ diffWrites[j].patch = Update(Node("child2-2", None, <<>>))
        /\ \E j \in 1..Len(diffWrites) :
               diffWrites[j].path = <<3>> /\ diffWrites[j].patch = Remove
        /\ 0 \in DOMAIN result
        /\ result[0] = Insert(<<Node("child4", key("child4"), <<>>),
                                Node("child5", key("child5"), <<>>),
                                Node("child6", key("child6"),
                                     <<Node("child6-1", None, <<>>)>>)>>)

\* C4, amended: for the trees of it_works, diff yields exactly five patches: Remove
\* at 2 (child1-1), Update at 4 and at 5 (child2's two children, replaced by
\* child2-2 and by child2-1[child2-1-1]), Update at 6 (child3 replaced by child4)
\* and Insert at 0 batching child5 and child6.
C4_ItWorksDiff ==
    (IsItWorks /\ pc # "start") =>
        /\ DOMAIN result = {0, 2, 4, 5, 6}
        /\ result[2] = Remove
        /\ result[4] = Update(Node("child2-2", None, <<>>))
        /\ result[5] = Update(Node("child2-1", None,
                                   <<Node("child2-1-1", None, <<>>)>>))
        /\ result[6] = Update(Node("child4", key("child4"), <<>>))
        /\ result[0] = Insert(<<Node("child5", key("child5"), <<>>),
                                Node("child6", key("child6"),
                                     <<Node("child6-1", None, <<>>)>>)>>)
        /\ {diffWrites[j].path : j \in 1..Len(diffWrites)}
               = {<<>>, <<1, 1>>, <<2, 1>>, <<2, 2>>, <<3>>}

C4_Witness == IsItWorks /\ pc = "diffed" /\ Len(diffWrites) = 5

\* ------------------------------------------------------------------ C6
\* A = r[c1] and B = r[c1, c2], c1 the same in both
IsPureAppend ==
    /\ node1.value = node2.value
    /\ Len(node1.children) = 1
    /\ Len(node2.children) = 2
    /\ StructEq(node1.children[1], node2.children[1])

\* C6: for every value-equal pair (a, b) diff compares with nb > na, exactly one
\* Insert is recorded for a, keyed at the counter value on entry to a, its list
\* being b.children[na..nb], non-empty.  For A = r[c1], B = r[c1, c2] the diff is
\* exactly {0: Insert([c2])} and patch prints r and c1's subtree unmarked, then
\* c2's subtree marked at depth 1.
C6_TrailingChildrenInserted ==
    /\ pc # "start" =>
           \A k \in 1..Len(diffVisits) :
               LET v == diffVisits[k]
                   a == At(node1, v.path)
                   b == At(node2, v.path)
                   na == Len(a.children)
                   nb == Len(b.children)
                   ws == {j \in 1..Len(diffWrites) :
                             /\ diffWrites[j].path = v.path
                             /\ diffWrites[j].patch.tag = "Insert"}
               IN  (v.kind = "walk" /\ a.value = b.value /\ nb > na) =>
                       /\ Cardinality(ws) = 1
                       /\ \A j \in ws :
                              /\ diffWrites[j].pos = v.index
                              /\ diffWrites[j].patch.nodes # <<>>
                              /\ diffWrites[j].patch.nodes
                                     = [n \in 1..(nb - na) |-> b.children[na + n]]
                              /\ result[v.index] = diffWrites[j].patch
    /\ (IsPureAppend /\ pc # "start") =>
           /\ DOMAIN result = {0}
           /\ result[0] = Insert(<<node2.children[2]>>)
    /\ (IsPureAppend /\ pc = "patched") =>
           stdout = <<Line(node1, <<>>, 0, FALSE)>>
                        \o Render(node2.children[1], 1, FALSE)
                        \o Render(node2.children[2], 1, TRUE)

C6_Witness ==
    /\ pc = "patched"
    /\ IsPureAppend
    /\ Len(stdout) = 3

\* ------------------------------------------------------------------ C7
\* A = r[c1, c2] and B = r[c1], c1 the same in both
IsPureRemoval ==
    /\ node1.value = node2.value
    /\ Len(node1.children) = 2
    /\ Len(node2.children) = 1
    /\ StructEq(node1.children[1], node2.children[1])

\* C7: for every value-equal pair (a, b) diff compares with na > nb, each child of a
\* at slot i >= nb gets a Remove at the counter value assigned to it, nothing is
\* recorded for its descendants, and patch prints no line for it or them.  For
\* A = r[c1, c2], B = r[c1] the diff is exactly {1 + size(c1): Remove} and patch
\* prints only r and c1's subtree, unmarked.
C7_TrailingChildrenRemoved ==
    /\ pc # "start" =>
           \A k \in 1..Len(diffVisits) :
               LET v == diffVisits[k]
                   a == At(node1, v.path)
                   b == At(node2, v.path)
               IN  (v.kind = "walk" /\ a.value = b.value) =>
                       \A i \in (Len(b.children) + 1)..Len(a.children) :
                           LET c == v.path \o <<i>>
                           IN  /\ \E m \in 1..Len(diffVisits) :
                                      /\ diffVisits[m] = [path |-> c, kind |-> "remove",
                                                          index |-> diffVisits[m].index]
                                      /\ diffVisits[m].index \in DOMAIN result
                                      /\ result[diffVisits[m].index] = Remove
                                      /\ \E j \in 1..Len(diffWrites) :
                                             diffWrites[j] = [pos |-> diffVisits[m].index,
                                                              path |-> c, patch |-> Remove]
                               /\ \A j \in 1..Len(diffWrites) :
                                      ~IsProperPrefix(c, diffWrites[j].path)
                               /\ \A m \in 1..Len(diffVisits) :
                                      ~IsProperPrefix(c, diffVisits[m].path)
                               /\ \A m \in 1..Len(origin) :
                                      origin[m].from = "node" => ~IsPrefix(c, origin[m].path)
    /\ (IsPureRemoval /\ pc # "start") =>
           /\ DOMAIN result = {1 + Size(node1.children[1])}
           /\ result[1 + Size(node1.children[1])] = Remove
    /\ (IsPureRemoval /\ pc = "patched") =>
           stdout = <<Line(node1, <<>>, 0, FALSE)>> \o Render(node1.children[1], 1, FALSE)

C7_Witness ==
    /\ pc = "patched"
    /\ IsPureRemoval
    /\ node1.children[2].children # <<>>
    /\ Len(stdout) = 2

\* ------------------------------------------------------------------ C8
\* C8: when the root values differ, diff(T1, T2) is exactly {0: Update(T2)}, whatever
\* the children are, and patch prints only T2's nodes, all marked, and no node of T1.
C8_RootReplaced ==
    node1.value # node2.value =>
        /\ pc # "start" =>
               /\ DOMAIN result = {0}
               /\ result[0] = Update(node2)
               /\ Len(diffWrites) = 1
        /\ pc = "patched" =>
               /\ stdout = Render(node2, 0, TRUE)
               /\ \A m \in 1..Len(origin) : origin[m].from = "patch"

C8_Witness ==
    /\ pc = "patched"
    /\ node1.value # node2.value
    /\ Len(node1.children) >= 2
    /\ Len(node2.children) >= 2
    /\ Len(stdout) = Size(node2)

\* ------------------------------------------------------------------ C9
\* C9: diff writes no position key twice: every insertion into the map targets a
\* position with no entry yet, so the map holds one patch per position and nothing
\* is overwritten.
C9_NoKeyWrittenTwice ==
    pc # "start" =>
        /\ \A i, j \in 1..Len(diffWrites) :
               i # j => diffWrites[i].pos # diffWrites[j].pos
        /\ DOMAIN result = {diffWrites[j].pos : j \in 1..Len(diffWrites)}
        /\ \A j \in 1..Len(diffWrites) : result[diffWrites[j].pos] = diffWrites[j].patch

\* an Insert keyed at a parent's position beside an Update of that parent's child
C9_Witness ==
    /\ pc = "diffed"
    /\ \E i, j \in 1..Len(diffWrites) :
           /\ diffWrites[i].patch.tag = "Insert"
           /\ diffWrites[j].patch.tag = "Update"
           /\ diffWrites[j].path = diffWrites[i].path \o <<Len(At(node1, diffWrites[i].path).children)>>

\* ------------------------------------------------------------------ C10
\* the nodes of A diff never reaches: those below a removed or replaced node
Skipped ==
    {q \in {PreOrder(node1, <<>>)[k] : k \in 1..Size(node1)} :
        \E j \in 1..Len(diffWrites) :
            /\ diffWrites[j].patch.tag \in {"Update", "Remove"}
            /\ IsProperPrefix(diffWrites[j].path, q)}

\* the patches recorded for the node itself (an Insert is recorded for its parent)
VisitOf(w) ==
    CHOOSE k \in 1..Len(diffVisits) : diffVisits[k].path = w.path

\* C10 as stated: the counter value at which diff visits a node of A, and under
\* which it records the node's patch, is the node's pre-order position in A.
C10_AsStated ==
    pc # "start" =>
        /\ \A k \in 1..Len(diffVisits) :
               diffVisits[k].index = Pos(node1, diffVisits[k].path)
        /\ \A j \in 1..Len(diffWrites) :
               diffWrites[j].pos = Pos(node1, diffWrites[j].path)

\* C10, amended: the counter value at which diff visits a node of A, and under
\* which it records the node's patch, is the number of nodes diff visited before
\* it: the node's pre-order position in A less the number of nodes before it in
\* that order that lie below a removed or replaced node.
C10_CounterIsVisitRank ==
    pc # "start" =>
        /\ \A k \in 1..Len(diffVisits) :
               /\ diffVisits[k].index = k - 1
               /\ diffVisits[k].index
                      = Pos(node1, diffVisits[k].path)
                        - Cardinality({q \in Skipped :
                                          Pos(node1, q) < Pos(node1, diffVisits[k].path)})
        /\ \A j \in 1..Len(diffWrites) :
               diffWrites[j].pos = diffVisits[VisitOf(diffWrites[j])].index

\* a node visited, and patched, at a counter value that is not its pre-order position
C10_Witness ==
    /\ pc = "diffed"
    /\ \E j \in 1..Len(diffWrites) :
           /\ diffWrites[j].pos # Pos(node1, diffWrites[j].path)
           /\ diffWrites[j].pos = diffVisits[VisitOf(diffWrites[j])].index

====
